---------------------------- MODULE Spec2Model ----------------------------
(***************************************************************************)
(* CoreDump: a crash record kept in RAM that survives a CPU reset.         *)
(*                                                                         *)
(* The model follows src/CoreDump.cpp (the same code is repeated in        *)
(* src/main.cpp:89-388) in the build that src/unnamed/part_001 (Options.h) *)
(* selects: USE_HARDWARE, USE_OPERATING_SYSTEM and the backtrace options   *)
(* are all undefined, so the record has no register fields and the active  *)
(* call stack is filled by the address-range scan StoreCallStack.          *)
(*                                                                         *)
(* A uint32_t value v is the pair <<v \div 2^16, v % 2^16>> of its 16-bit  *)
(* halves (TLC's integers stop at 2^31-1), a byte is 0 .. 255, and a C     *)
(* array a[0 .. n-1] is the sequence a[1 .. n].                            *)
(***************************************************************************)
EXTENDS Integers, Sequences, FiniteSets, TLC

\* ----------------------------------------------------------------------
\* Program constants (src/CoreDump.h)
\* ----------------------------------------------------------------------
STACK_MARKER == <<61423, 61423>>            \* 0xEFEFEFEF
KEY_CORE_DUMP_STORED == <<57005, 48879>>    \* 0xDEADBEEF
SOFTWARE_VERSION == 1234
FILE_NAME_LEN == 128
CALL_STACK_SIZE == 8
MAX_STACK_DEPTH_SEARCH == 1024
RAM_BEGIN == <<16, 0>>                      \* 0x100000
RAM_END == <<32, 0>>                        \* 0x200000
FLASH_BASE == <<64, 0>>                     \* 0x400000
FLASH_END == <<80, 0>>                      \* 0x500000

\* enum FaultType
OS_TASKCNT == 5
FAULT_EXCEPTION == 0
SOFTWARE_ASSERTION == 1

\* The null pointer of a const char*; a fileName argument other than NULL is
\* an index into FileNames.
NULL == 0

\* uint32_t arithmetic
Half == 2^16
U32(n) == <<n \div Half, n % Half>>               \* 0 <= n < 2^31 as a uint32_t
Zero32 == <<0, 0>>
Ones32 == <<Half - 1, Half - 1>>                  \* 0xFFFFFFFF
BitNot32(x) == <<(Half - 1) - x[1], (Half - 1) - x[2]>>     \* the C operator ~
Less32(x, y) == x[1] < y[1] \/ (x[1] = y[1] /\ x[2] < y[2]) \* x < y, unsigned

\* ----------------------------------------------------------------------
\* Bounds of the model
\* ----------------------------------------------------------------------
\* The longest file name passed to CoreDumpStore has FILE_NAME_LEN + MaxOverrun
\* characters.
MaxOverrun == 1

\* The public operations are tried on the first ApiImages stack images; the
\* scan of the call stack is tried on all of them.
ApiImages == 3

VARIABLES
    coreDumpData,   \* static CoreDumpData _coreDumpData
    op,             \* the call made last, with its arguments and return value
    pc,             \* the statement reached, where a function runs in steps
    frame           \* the arguments and local variables of that function

vars == <<coreDumpData, op, pc, frame>>

\* ----------------------------------------------------------------------
\* Inputs
\* ----------------------------------------------------------------------
\* Character i (1-based) of the long test path of n characters: printable,
\* different from its neighbours and from the same character of the other
\* paths, so that a shifted, left-truncated or stale copy is told apart.
PathChar(n, i) == 33 + ((i + 7 * n) % 90)

LongName(n) == [i \in 1..n |-> PathChar(n, i)]

\* The strings a fileName argument may point to, without their terminating 0.
\* "first", "path/to/file.c", and paths around the size of the buffer.
FileNames ==
    << <<102, 105, 114, 115, 116>>,
       <<112, 97, 116, 104, 47, 116, 111, 47, 102, 105, 108, 101, 46, 99>> >>
    \o [k \in 1..(MaxOverrun + 2) |-> LongName(FILE_NAME_LEN - 2 + k)]

\* A fileName argument: NULL or a pointer to FileNames[p].
FileNamePointers == {NULL} \cup (1..Len(FileNames))

\* Stack memory at the time of the fault: the words found at stackPointer,
\* stackPointer + 1, ... and the word every further address reads as.
StackImages ==
    << \* three return addresses between locals, then the marker pair
       [words |-> <<<<13107, 13107>>, <<64, 256>>, <<13107, 13107>>, <<64, 512>>,
                    <<13107, 13107>>, <<13107, 13107>>, <<13107, 13107>>,
                    <<64, 768>>, Zero32, Zero32,
                    STACK_MARKER, STACK_MARKER, <<64, 1024>> >>,
        fill  |-> Zero32],
       \* more return addresses than the record holds, the range bounds
       \* FLASH_BASE and FLASH_END among them, and a single marker word
       [words |-> <<<<63, Half - 1>>, FLASH_BASE, STACK_MARKER, FLASH_END,
                    <<80, 1>>, <<64, 4>>, <<64, 8>>, <<64, 12>>, <<64, 16>>,
                    <<64, 20>>, <<64, 24>>, <<64, 28>>, <<64, 32>> >>,
        fill  |-> <<4369, 4369>>],
       \* no return address and no marker
       [words |-> << >>,
        fill  |-> Zero32],
       \* twenty return addresses, the marker pair, one more return address
       [words |-> [i \in 1..20 |-> <<64, 4096 + 4 * i>>]
                    \o <<STACK_MARKER, STACK_MARKER, <<64, 8192>> >>,
        fill  |-> Zero32],
       \* single markers (one before a return address, two with a word between
       \* them) and no marker pair
       [words |-> <<<<64, 16>>, STACK_MARKER, <<64, 32>>, STACK_MARKER,
                    Zero32, STACK_MARKER, <<64, 48>> >>,
        fill  |-> <<4369, 4369>>],
       \* the marker pair first, return addresses after it
       [words |-> <<STACK_MARKER, STACK_MARKER, STACK_MARKER, <<64, 64>>,
                    <<64, 68>> >>,
        fill  |-> <<64, 72>>],
       \* no marker; return addresses in the last word the search reaches and
       \* in the first it does not
       [words |-> [i \in 1..(MAX_STACK_DEPTH_SEARCH + 1) |->
                     IF i = MAX_STACK_DEPTH_SEARCH THEN <<64, 80>>
                     ELSE IF i = MAX_STACK_DEPTH_SEARCH + 1 THEN <<64, 84>>
                     ELSE <<4369, 4369>>],
        fill  |-> <<4369, 4369>>],
       \* no marker; a marker word in the last word the search reaches and in
       \* the first it does not
       [words |-> [i \in 1..(MAX_STACK_DEPTH_SEARCH + 1) |->
                     IF i = 2 THEN <<64, 96>>
                     ELSE IF i >= MAX_STACK_DEPTH_SEARCH THEN STACK_MARKER
                     ELSE Zero32],
        fill  |-> <<64, 100>>] >>

\* The stack pointers passed: none, one inside RAM (0x101000), one outside RAM
\* (0x200004).
StackPointers == {Zero32, <<16, 4096>>, <<32, 4>>}

\* The stack images that may lie at stackPointer.  Image 0 stands for memory
\* that is not RAM, of which the model says nothing.
ImagesAt(stackPointer) ==
    IF stackPointer = <<16, 4096>> THEN 1..ApiImages ELSE {0}

\* The stack pointers the scan is tried on: null, below RAM (0x0FFFFC),
\* RAM_BEGIN, inside RAM, RAM_END, above RAM (0x200004, 0xFFFFFFFC).
ScanStackPointers ==
    {Zero32, <<15, 65532>>, RAM_BEGIN, <<16, 4096>>, RAM_END, <<32, 4>>,
     <<65535, 65532>>}

\* The stack images that may lie at a stack pointer the scan is tried on: any
\* where StoreCallStack reads.
ScanImagesAt(stackPointer) ==
    IF Less32(stackPointer, RAM_BEGIN) \/ Less32(RAM_END, stackPointer)
    THEN {0} ELSE 1..Len(StackImages)

LineNumbers == {U32(1), Ones32}
AuxCodes == {Zero32, Ones32}

\* *(stackPointer + depth) with the stack holding image img at stackPointer.
ReadStack(img, depth) ==
    IF depth < Len(StackImages[img].words)
    THEN StackImages[img].words[depth + 1]
    ELSE StackImages[img].fill

\* ----------------------------------------------------------------------
\* class CoreDumpData and the RAM it lives in
\* ----------------------------------------------------------------------
\* Byte b (0 = lowest address) of the word w, little-endian.
ByteOf(w, b) ==
    LET half == IF b < 2 THEN w[2] ELSE w[1]
    IN IF b % 2 = 0 THEN half % 256 ELSE half \div 256

\* The record as found when its RAM, which no startup code writes, holds the
\* word even at the even word offsets and odd at the odd ones.  Word offsets:
\* Key 0, NotKey 1, SoftwareVersion 2, AuxCode 3, Type 4, LineNumber 5,
\* FileName 6..37, ActiveCallStack 38..45.
FilledRecord(even, odd) ==
    [Key             |-> even,
     NotKey          |-> odd,
     SoftwareVersion |-> even,
     AuxCode         |-> odd,
     Type            |-> even,
     LineNumber      |-> odd,
     FileName        |-> [i \in 1..FILE_NAME_LEN |->
                            ByteOf(IF ((i - 1) \div 4) % 2 = 0 THEN even ELSE odd,
                                   (i - 1) % 4)],
     ActiveCallStack |-> [i \in 1..CALL_STACK_SIZE |->
                            IF i % 2 = 1 THEN even ELSE odd]]

\* RAM contents at power-on: all zeros, all ones, one repeated word (the key
\* and its complement among them), alternating bits.
ColdFills ==
    { <<Zero32, Zero32>>, <<Ones32, Ones32>>,
      <<KEY_CORE_DUMP_STORED, KEY_CORE_DUMP_STORED>>,
      <<BitNot32(KEY_CORE_DUMP_STORED), BitNot32(KEY_CORE_DUMP_STORED)>>,
      <<<<43690, 43690>>, <<21845, 21845>> >>,
      <<<<21845, 21845>>, <<43690, 43690>> >> }

\* What the record may hold at power-on: a fill, zeros with the key in the Key
\* position only, or (by chance) both keys in place over ones.
ColdRecords ==
    { FilledRecord(f[1], f[2]) : f \in ColdFills }
    \cup { [FilledRecord(Zero32, Zero32) EXCEPT !.Key = KEY_CORE_DUMP_STORED],
           [FilledRecord(Ones32, Ones32) EXCEPT
                !.Key = KEY_CORE_DUMP_STORED,
                !.NotKey = BitNot32(KEY_CORE_DUMP_STORED)] }

\* ----------------------------------------------------------------------
\* StoreCallStack
\* ----------------------------------------------------------------------
\* The marker test taking a single marker word for the beginning of the stack.
AtStackBegin_SingleMarker(img, depth) ==
    ReadStack(img, depth) = STACK_MARKER

\* Have we reached the beginning of the stack?
\* stackData == STACK_MARKER && *(stackPointer + depth + 1) == STACK_MARKER
AtStackBegin(img, depth) ==
    ReadStack(img, depth) = STACK_MARKER /\ ReadStack(img, depth + 1) = STACK_MARKER

\* The range test without its upper bound.
InFlashRange_NoUpper(stackData) ==
    ~Less32(stackData, FLASH_BASE)

\* The range test with FLASH_END excluded.
InFlashRange_ExclusiveEnd(stackData) ==
    ~Less32(stackData, FLASH_BASE) /\ Less32(stackData, FLASH_END)

\* Is the stack value within the flash address range?
\* stackData >= FLASH_BASE && stackData <= FLASH_END
InFlashRange(stackData) ==
    ~Less32(stackData, FLASH_BASE) /\ ~Less32(FLASH_END, stackData)

\* One pass through the body of the for loop with the loop variable depth.
\* st.stackDepth and st.stackStoreArr are the variables of that name; st.done
\* says that a break has left the loop, after which no pass does anything.
ScanStep(img, depth, st) ==
    IF st.done
    THEN st
    ELSE LET stackData == ReadStack(img, depth) IN
         IF AtStackBegin(img, depth)
         THEN [st EXCEPT !.done = TRUE]
         ELSE LET hit == InFlashRange(stackData)
                  arr == IF hit
                         THEN [st.stackStoreArr EXCEPT ![st.stackDepth + 1] = stackData]
                         ELSE st.stackStoreArr
                  stored == IF hit THEN st.stackDepth + 1 ELSE st.stackDepth
              IN [stackDepth    |-> stored,
                  stackStoreArr |-> arr,
                  done          |-> stored >= Len(arr)]

RECURSIVE ScanRange(_, _, _, _)
\* The passes for depth = from, from + 1, ..., to - 1 in this order.  The
\* range is split in halves, and the first half is brought to a value (h)
\* before the second starts, to keep TLC's evaluation shallow.
ScanRange(img, from, to, st) ==
    IF to <= from THEN st
    ELSE IF to = from + 1 THEN ScanStep(img, from, st)
    ELSE LET mid == (from + to) \div 2
         IN CHOOSE r \in { ScanRange(img, mid, to, h) :
                             h \in {ScanRange(img, from, mid, st)} } : TRUE

\* A memset of sizeof(uint32_t) bytes: the length is left out.
ClearedArr_FirstOnly(stackStoreArr, stackStoreArrLen) ==
    [i \in 1..Len(stackStoreArr) |->
        IF i <= 1 THEN Zero32 ELSE stackStoreArr[i]]

\* memset(stackStoreArr, 0, sizeof(uint32_t) * stackStoreArrLen)
ClearedArr(stackStoreArr, stackStoreArrLen) ==
    [i \in 1..Len(stackStoreArr) |->
        IF i <= stackStoreArrLen THEN Zero32 ELSE stackStoreArr[i]]

\* The for loop of StoreCallStack over the stack image img, entered with the
\* array stackStoreArr: what it leaves in the array.
ScanLoop(img, stackStoreArr) ==
    ScanRange(img, 0, MAX_STACK_DEPTH_SEARCH,
              [stackDepth |-> 0, stackStoreArr |-> stackStoreArr,
               done |-> FALSE]).stackStoreArr

\* ScanLoop from an array of CALL_STACK_SIZE zeros, the length the callers pass
\* (CoreDump.cpp:77 and :160), tabulated for the stack images.
ScanTable ==
    [img \in 1..Len(StackImages) |->
        ScanLoop(img, [i \in 1..CALL_STACK_SIZE |-> Zero32])]

\* The stack pointer test with the bounds RAM_BEGIN and RAM_END rejected.
OutsideRam_Strict(stackPointer) ==
    ~Less32(RAM_BEGIN, stackPointer) \/ ~Less32(stackPointer, RAM_END)

\* (uint32_t)stackPointer < RAM_BEGIN || (uint32_t)stackPointer > RAM_END
OutsideRam(stackPointer) ==
    Less32(stackPointer, RAM_BEGIN) \/ Less32(RAM_END, stackPointer)

\* StoreCallStack(stackPointer, stackStoreArr, stackStoreArrLen) with the stack
\* image img at stackPointer: the array it leaves behind.
StoreCallStack(stackPointer, img, stackStoreArr, stackStoreArrLen) ==
    LET cleared == ClearedArr(stackStoreArr, stackStoreArrLen) IN
    IF OutsideRam(stackPointer)
    THEN cleared
    ELSE IF cleared = [i \in 1..CALL_STACK_SIZE |-> Zero32]
         THEN ScanTable[img]
         ELSE ScanLoop(img, cleared)

\* ----------------------------------------------------------------------
\* IsCoreDumpSaved, CoreDumpReset
\* ----------------------------------------------------------------------
\* IsCoreDumpSaved testing the key alone.
IsCoreDumpSaved_KeyOnly(d) ==
    d.Key = KEY_CORE_DUMP_STORED

IsCoreDumpSaved(d) ==
    d.Key = KEY_CORE_DUMP_STORED /\ d.NotKey = BitNot32(KEY_CORE_DUMP_STORED)

\* CoreDumpReset clearing the whole record.
ResetKeys_Memset(d) ==
    [Key |-> Zero32, NotKey |-> Zero32, SoftwareVersion |-> Zero32,
     AuxCode |-> Zero32, Type |-> Zero32, LineNumber |-> Zero32,
     FileName |-> [i \in 1..FILE_NAME_LEN |-> 0],
     ActiveCallStack |-> [i \in 1..CALL_STACK_SIZE |-> Zero32]]

\* CoreDumpReset clearing the keys of a copy of the record.
ResetKeys_OfCopy(d) == d

ResetKeys(d) == [d EXCEPT !.Key = Zero32, !.NotKey = Zero32]

\* ----------------------------------------------------------------------
\* CoreDumpStore
\* ----------------------------------------------------------------------
\* A copy that stops at the terminator of src instead of padding to n.
Strncpy_NoPad(dest, src, n) ==
    [i \in 1..Len(dest) |->
        IF i <= n /\ i <= Len(src) + 1
        THEN (IF i <= Len(src) THEN src[i] ELSE 0)
        ELSE dest[i]]

\* strncpy(dest, src, n): the first n characters of src, padded with zeros to
\* n when src is shorter; the rest of dest is not written.
Strncpy(dest, src, n) ==
    [i \in 1..Len(dest) |->
        IF i <= n
        THEN (IF i <= Len(src) THEN src[i] ELSE 0)
        ELSE dest[i]]

\* SaveFileName emptying the buffer when there is no name.
SaveFileName_ClearOnNull(FileName, fileName) ==
    IF fileName # NULL
    THEN [Strncpy(FileName, FileNames[fileName], FILE_NAME_LEN)
             EXCEPT ![FILE_NAME_LEN] = 0]
    ELSE [FileName EXCEPT ![1] = 0]

\* if (fileName != NULL) { strncpy(...); FileName[FILE_NAME_LEN - 1] = 0; }
SaveFileName(FileName, fileName) ==
    IF fileName # NULL
    THEN [Strncpy(FileName, FileNames[fileName], FILE_NAME_LEN)
             EXCEPT ![FILE_NAME_LEN] = 0]
    ELSE FileName

\* The fault kind taken from whether the stack pointer lies in RAM.
FaultTypeOf_InRam(stackPointer) ==
    IF ~Less32(stackPointer, RAM_BEGIN) /\ ~Less32(RAM_END, stackPointer)
    THEN FAULT_EXCEPTION ELSE SOFTWARE_ASSERTION

\* if (stackPointer != 0) Type = FAULT_EXCEPTION; else Type = SOFTWARE_ASSERTION;
FaultTypeOf(stackPointer) ==
    IF stackPointer # Zero32 THEN FAULT_EXCEPTION ELSE SOFTWARE_ASSERTION

\* The key written without its complement.
SetKeys_KeyOnly(d) ==
    [d EXCEPT !.Key = KEY_CORE_DUMP_STORED]

\* Set the key indicating a core dump is stored.
SetKeys(d) ==
    [d EXCEPT !.Key = KEY_CORE_DUMP_STORED,
              !.NotKey = BitNot32(KEY_CORE_DUMP_STORED)]

\* Populate with the line number cut to an unsigned short.
Populate_ShortLine(d, stackPointer, img, fileName, lineNumber, auxCode) ==
    [SetKeys(d) EXCEPT
        !.SoftwareVersion = U32(SOFTWARE_VERSION),
        !.AuxCode         = auxCode,
        !.Type            = U32(FaultTypeOf(stackPointer)),
        !.LineNumber      = <<0, lineNumber[2]>>,
        !.FileName        = SaveFileName(d.FileName, fileName),
        !.ActiveCallStack = StoreCallStack(stackPointer, img, d.ActiveCallStack,
                                           CALL_STACK_SIZE)]

\* The statements of CoreDumpStore after the guard.  Without USE_HARDWARE a
\* null stackPointer reaches StoreCallStack as it is.
Populate(d, stackPointer, img, fileName, lineNumber, auxCode) ==
    [SetKeys(d) EXCEPT
        !.SoftwareVersion = U32(SOFTWARE_VERSION),
        !.AuxCode         = auxCode,
        !.Type            = U32(FaultTypeOf(stackPointer)),
        !.LineNumber      = lineNumber,
        !.FileName        = SaveFileName(d.FileName, fileName),
        !.ActiveCallStack = StoreCallStack(stackPointer, img, d.ActiveCallStack,
                                           CALL_STACK_SIZE)]

\* CoreDumpStore without the test for a stored core dump.
StoredRecord_NoGuard(d, stackPointer, img, fileName, lineNumber, auxCode) ==
    Populate(d, stackPointer, img, fileName, lineNumber, auxCode)

\* CoreDumpStore calling StoreThreadCallStacks, with no task alive: the rows
\* of ThreadCallStacks are cleared.
StoredRecord_StoresThreads(d, stackPointer, img, fileName, lineNumber, auxCode) ==
    IF IsCoreDumpSaved(d)
    THEN d
    ELSE [Populate(d, stackPointer, img, fileName, lineNumber, auxCode) EXCEPT
             !.ThreadCallStacks =
                 [row \in DOMAIN @ |-> [i \in 1..CALL_STACK_SIZE |-> Zero32]]]

\* The record CoreDumpStore leaves behind.
StoredRecord(d, stackPointer, img, fileName, lineNumber, auxCode) ==
    IF IsCoreDumpSaved(d)
    THEN d
    ELSE Populate(d, stackPointer, img, fileName, lineNumber, auxCode)

\* ----------------------------------------------------------------------
\* The operations
\* ----------------------------------------------------------------------
Call(name, stackPointer, img, fileName, lineNumber, auxCode, ret) ==
    [name |-> name, stackPointer |-> stackPointer, image |-> img,
     fileName |-> fileName, lineNumber |-> lineNumber, auxCode |-> auxCode,
     ret |-> ret]

NoArgCall(name, ret) == Call(name, Zero32, 0, NULL, Zero32, Zero32, ret)

\* static CoreDumpData _coreDumpData: the one record of the process, named
\* by its address.
AddressOf_coreDumpData == "&_coreDumpData"

\* CoreDumpGet handing out a copy of the record.
CoreDumpGetReturn_Copy == "&copy"

\* return &_coreDumpData;
CoreDumpGetReturn == AddressOf_coreDumpData

\* A call of CoreDumpGet and the pointer it returned.
CoreDumpGetCall ==
    [name |-> "CoreDumpGet", stackPointer |-> Zero32, image |-> 0,
     fileName |-> NULL, lineNumber |-> Zero32, auxCode |-> Zero32,
     ret |-> FALSE, object |-> CoreDumpGetReturn]

\* No function is running in steps: the public operations are called, each
\* as one step.
NoFrame == << >>

Init ==
    /\ coreDumpData \in ColdRecords
    /\ op = NoArgCall("PowerOn", FALSE)
    /\ pc = "api"
    /\ frame = NoFrame

CoreDumpStore(stackPointer, img, fileName, lineNumber, auxCode) ==
    /\ coreDumpData' =
           StoredRecord(coreDumpData, stackPointer, img, fileName, lineNumber, auxCode)
    /\ op' = Call("CoreDumpStore", stackPointer, img, fileName, lineNumber, auxCode, FALSE)
    /\ UNCHANGED <<pc, frame>>

IsCoreDumpSavedCall ==
    /\ op' = NoArgCall("IsCoreDumpSaved", IsCoreDumpSaved(coreDumpData))
    /\ UNCHANGED <<coreDumpData, pc, frame>>

CoreDumpGet ==
    /\ op' = CoreDumpGetCall
    /\ UNCHANGED <<coreDumpData, pc, frame>>

CoreDumpReset ==
    /\ coreDumpData' = ResetKeys(coreDumpData)
    /\ op' = NoArgCall("CoreDumpReset", FALSE)
    /\ UNCHANGED <<pc, frame>>

\* The record placed in a section the C runtime zero-initializes.
RetainedRam_ZeroInit(d) == ResetKeys_Memset(d)

\* What a CPU reset does to the record: nothing, it is outside the sections
\* the C runtime initializes.
RetainedRam(d) == d

WarmReset ==
    /\ coreDumpData' = RetainedRam(coreDumpData)
    /\ op' = NoArgCall("WarmReset", FALSE)
    /\ UNCHANGED <<pc, frame>>

Next ==
    \/ \E stackPointer \in StackPointers, fileName \in FileNamePointers,
          lineNumber \in LineNumbers, auxCode \in AuxCodes :
            \E img \in ImagesAt(stackPointer) :
                CoreDumpStore(stackPointer, img, fileName, lineNumber, auxCode)
    \/ IsCoreDumpSavedCall
    \/ CoreDumpGet
    \/ CoreDumpReset
    \/ WarmReset

Spec == Init /\ [][Next]_vars

\* ----------------------------------------------------------------------
\* Captures over many stacks: CoreDumpStore with every stack pointer and
\* stack image, and CoreDumpReset between captures.
\* ----------------------------------------------------------------------
NextScan ==
    \/ \E stackPointer \in ScanStackPointers, fileName \in {NULL, 2} :
            \E img \in ScanImagesAt(stackPointer) :
                CoreDumpStore(stackPointer, img, fileName, U32(42), Zero32)
    \/ CoreDumpReset

SpecScan == Init /\ [][NextScan]_vars

\* ----------------------------------------------------------------------
\* Properties
\* ----------------------------------------------------------------------
\* The step is a call of CoreDumpStore.
StoreStep == op'.name = "CoreDumpStore"

\* The step is a call of CoreDumpStore that finds no stored core dump.
PopulatingStep == StoreStep /\ ~IsCoreDumpSaved(coreDumpData)

\* The fields of a record other than the two keys.
Payload(d) ==
    <<d.SoftwareVersion, d.AuxCode, d.Type, d.LineNumber, d.FileName,
      d.ActiveCallStack>>

\* C1: a CoreDumpStore called while IsCoreDumpSaved() is true changes no field
\* of the record, whatever its arguments.
C1_FirstWriterWins ==
    [][(StoreStep /\ IsCoreDumpSaved(coreDumpData))
          => coreDumpData' = coreDumpData]_vars

\* A CoreDumpStore has returned with an auxCode and a lineNumber that the
\* valid record does not hold: the call was dropped.
C1_Witness ==
    /\ op.name = "CoreDumpStore"
    /\ IsCoreDumpSaved(coreDumpData)
    /\ op.auxCode # coreDumpData.AuxCode
    /\ op.lineNumber # coreDumpData.LineNumber
    /\ coreDumpData.SoftwareVersion = U32(SOFTWARE_VERSION)

\* C2: after any call of CoreDumpStore has returned IsCoreDumpSaved() is true.
C2_SavedAfterStore ==
    op.name = "CoreDumpStore" => IsCoreDumpSaved(coreDumpData)

\* CoreDumpStore has returned from a call with a stack pointer outside RAM and
\* no file name, made on RAM that was all ones: the record is valid.
C2_Witness ==
    /\ op.name = "CoreDumpStore"
    /\ op.stackPointer = <<32, 4>>
    /\ op.fileName = NULL
    /\ coreDumpData.FileName = FilledRecord(Ones32, Ones32).FileName
    /\ coreDumpData.AuxCode = op.auxCode
    /\ IsCoreDumpSaved(coreDumpData)

\* The record regions that must not pass for a stored core dump: all zeros, all
\* ones, the key or its complement repeated, alternating bits, the key in the
\* Key position only.
C3_Adversarial ==
    { FilledRecord(Zero32, Zero32), FilledRecord(Ones32, Ones32),
      FilledRecord(<<57005, 48879>>, <<57005, 48879>>),
      FilledRecord(<<8530, 16656>>, <<8530, 16656>>),
      FilledRecord(<<43690, 43690>>, <<21845, 21845>>),
      FilledRecord(<<21845, 21845>>, <<43690, 43690>>),
      [FilledRecord(Zero32, Zero32) EXCEPT !.Key = <<57005, 48879>>] }

\* C3: IsCoreDumpSaved() returns true exactly when Key is 0xDEADBEEF and NotKey
\* is 0x21524110, its 32-bit complement; it returns false on each of the
\* adversarial record regions.
C3_TwoKeyCheck ==
    op.name = "IsCoreDumpSaved" =>
        /\ op.ret <=> (/\ coreDumpData.Key = <<57005, 48879>>
                       /\ coreDumpData.NotKey = <<8530, 16656>>)
        /\ coreDumpData \in C3_Adversarial => ~op.ret

\* IsCoreDumpSaved() has returned false on zeros with the key in the Key
\* position only.
C3_Witness ==
    /\ op.name = "IsCoreDumpSaved"
    /\ coreDumpData = [FilledRecord(Zero32, Zero32) EXCEPT !.Key = <<57005, 48879>>]
    /\ op.ret = FALSE

\* C4: CoreDumpReset sets Key and NotKey to zero, so that IsCoreDumpSaved() is
\* false afterwards, and leaves every other field as it was.
C4_ResetClearsKeysOnly ==
    [][op'.name = "CoreDumpReset" =>
          /\ coreDumpData'.Key = Zero32
          /\ coreDumpData'.NotKey = Zero32
          /\ ~IsCoreDumpSaved(coreDumpData')
          /\ Payload(coreDumpData') = Payload(coreDumpData)]_vars

\* CoreDumpReset has returned on a record that a capture had filled.
C4_Witness ==
    /\ op.name = "CoreDumpReset"
    /\ coreDumpData.Key = Zero32
    /\ coreDumpData.NotKey = Zero32
    /\ coreDumpData.SoftwareVersion = U32(SOFTWARE_VERSION)
    /\ coreDumpData.FileName[1] = 112
    /\ coreDumpData.ActiveCallStack[1] = <<64, 256>>

\* C5: while no CoreDumpReset is called, a record holding a stored core dump is
\* changed by no step (CoreDumpStore, IsCoreDumpSaved, CoreDumpGet, warm
\* reset): every field keeps the value of the first capture.
C5_KeptUntilReset ==
    [][(IsCoreDumpSaved(coreDumpData) /\ op'.name # "CoreDumpReset")
          => coreDumpData' = coreDumpData]_vars

\* A captured software assertion is still in the record after a warm reset.
C5_Witness ==
    /\ op.name = "WarmReset"
    /\ IsCoreDumpSaved(coreDumpData)
    /\ coreDumpData.SoftwareVersion = U32(SOFTWARE_VERSION)
    /\ coreDumpData.Type = U32(SOFTWARE_ASSERTION)
    /\ coreDumpData.FileName[1] = 102

\* C6: a populating capture sets Type from the stack pointer alone:
\* FAULT_EXCEPTION when it is not 0, SOFTWARE_ASSERTION when it is 0.
C6_TypeFromStackPointer ==
    [][PopulatingStep =>
          coreDumpData'.Type =
              IF op'.stackPointer # Zero32 THEN <<0, 0>> ELSE <<0, 1>>]_vars

\* A capture with a stack pointer outside RAM is recorded as a hardware
\* exception.
C6_Witness ==
    /\ op.name = "CoreDumpStore"
    /\ op.stackPointer = <<32, 4>>
    /\ coreDumpData.Type = U32(FAULT_EXCEPTION)
    /\ coreDumpData.AuxCode = op.auxCode
    /\ coreDumpData.LineNumber = op.lineNumber
    /\ op.fileName # NULL

\* C7: a populating capture stores SOFTWARE_VERSION, the auxCode argument and
\* the lineNumber argument, each as the 32-bit value passed.
C7_VersionAuxLine ==
    [][PopulatingStep =>
          /\ coreDumpData'.SoftwareVersion = <<0, 1234>>
          /\ coreDumpData'.AuxCode = op'.auxCode
          /\ coreDumpData'.LineNumber = op'.lineNumber]_vars

\* A capture with lineNumber 0xFFFFFFFF and auxCode 0 is in the record.
C7_Witness ==
    /\ op.name = "CoreDumpStore"
    /\ op.lineNumber = Ones32
    /\ op.auxCode = Zero32
    /\ coreDumpData.LineNumber = Ones32
    /\ coreDumpData.AuxCode = Zero32
    /\ coreDumpData.SoftwareVersion = <<0, 1234>>
    /\ coreDumpData.Type = U32(SOFTWARE_ASSERTION)

\* C8: after any populating capture, from any prior record contents and for
\* any fileName argument, null included, FileName[FILE_NAME_LEN-1] is 0.
C8_NullTerminated ==
    [][PopulatingStep => coreDumpData'.FileName[FILE_NAME_LEN] = 0]_vars

\* The file name a populating capture with the name src leaves in the buffer:
\* the first min(L, FILE_NAME_LEN-1) characters, then zeros.
C9_Expected(src) ==
    [i \in 1..FILE_NAME_LEN |->
        IF i <= Len(src) /\ i <= FILE_NAME_LEN - 1 THEN src[i] ELSE 0]

\* C9: a populating capture with a non-null fileName leaves in FileName the
\* first min(L, FILE_NAME_LEN-1) bytes of the name followed by zeros up to
\* index FILE_NAME_LEN-1; nothing of an earlier name remains.
C9_TruncatedAndPadded ==
    [][(PopulatingStep /\ op'.fileName # NULL) =>
          coreDumpData'.FileName = C9_Expected(FileNames[op'.fileName])]_vars

\* A name of more than FILE_NAME_LEN characters has been captured: its
\* character 127 is in the buffer, followed by the terminator.
C9_Witness ==
    /\ op.name = "CoreDumpStore"
    /\ op.fileName # NULL
    /\ Len(FileNames[op.fileName]) > FILE_NAME_LEN
    /\ coreDumpData.FileName[1] = FileNames[op.fileName][1]
    /\ coreDumpData.FileName[FILE_NAME_LEN - 1] =
           FileNames[op.fileName][FILE_NAME_LEN - 1]
    /\ coreDumpData.FileName[FILE_NAME_LEN] = 0

\* C10: a populating capture with a null fileName leaves every byte of
\* FileName unchanged, marks the record valid and records SoftwareVersion,
\* AuxCode, Type, LineNumber and ActiveCallStack.
C10_NullFileName ==
    [][(PopulatingStep /\ op'.fileName = NULL) =>
          /\ coreDumpData'.FileName = coreDumpData.FileName
          /\ IsCoreDumpSaved(coreDumpData')
          /\ coreDumpData'.SoftwareVersion = U32(SOFTWARE_VERSION)
          /\ coreDumpData'.AuxCode = op'.auxCode
          /\ coreDumpData'.Type = U32(FaultTypeOf(op'.stackPointer))
          /\ coreDumpData'.LineNumber = op'.lineNumber
          /\ coreDumpData'.ActiveCallStack =
                 StoreCallStack(op'.stackPointer, op'.image,
                                coreDumpData.ActiveCallStack, CALL_STACK_SIZE)]_vars

\* A capture without a file name, made on RAM of alternating bits with the
\* first stack image, holds the three return addresses of the image and still
\* the bytes the buffer had.
C10_Witness ==
    /\ op.name = "CoreDumpStore"
    /\ op.fileName = NULL
    /\ op.image = 1
    /\ IsCoreDumpSaved(coreDumpData)
    /\ coreDumpData.FileName =
           FilledRecord(<<43690, 43690>>, <<21845, 21845>>).FileName
    /\ coreDumpData.LineNumber = op.lineNumber
    /\ coreDumpData.ActiveCallStack =
           <<<<64, 256>>, <<64, 512>>, <<64, 768>>, Zero32, Zero32, Zero32,
             Zero32, Zero32>>

\* ----------------------------------------------------------------------
\* A capture, its export, the reset, and a second capture with other
\* arguments. frame keeps the first call and the exported copy of the record.
\* ----------------------------------------------------------------------
InitRoundTrip ==
    /\ coreDumpData \in ColdRecords
    /\ op = NoArgCall("PowerOn", FALSE)
    /\ pc = "start"
    /\ frame = NoFrame

RoundTripCapture ==
    /\ pc = "start"
    /\ \E stackPointer \in StackPointers, fileName \in FileNamePointers,
          lineNumber \in LineNumbers, auxCode \in AuxCodes :
            \E img \in ImagesAt(stackPointer) :
                /\ coreDumpData' = StoredRecord(coreDumpData, stackPointer, img,
                                                fileName, lineNumber, auxCode)
                /\ op' = Call("CoreDumpStore", stackPointer, img, fileName,
                              lineNumber, auxCode, FALSE)
    /\ pc' = "captured"
    /\ frame' = [first |-> op']

RoundTripExport ==
    /\ pc = "captured"
    /\ IsCoreDumpSaved(coreDumpData)
    /\ op' = CoreDumpGetCall
    /\ frame' = [first |-> frame.first, exported |-> coreDumpData]
    /\ pc' = "exported"
    /\ UNCHANGED coreDumpData

RoundTripReset ==
    /\ pc = "exported"
    /\ coreDumpData' = ResetKeys(coreDumpData)
    /\ op' = NoArgCall("CoreDumpReset", FALSE)
    /\ pc' = "cleared"
    /\ UNCHANGED frame

RoundTripRecapture ==
    /\ pc = "cleared"
    /\ \E stackPointer \in StackPointers, fileName \in FileNamePointers,
          lineNumber \in LineNumbers, auxCode \in AuxCodes :
            \E img \in ImagesAt(stackPointer) :
                /\ coreDumpData' = StoredRecord(coreDumpData, stackPointer, img,
                                                fileName, lineNumber, auxCode)
                /\ op' = Call("CoreDumpStore", stackPointer, img, fileName,
                              lineNumber, auxCode, FALSE)
                /\ op' # frame.first
    /\ pc' = "recaptured"
    /\ UNCHANGED frame

NextRoundTrip ==
    RoundTripCapture \/ RoundTripExport \/ RoundTripReset \/ RoundTripRecapture

SpecRoundTrip == InitRoundTrip /\ [][NextRoundTrip]_vars

\* ----------------------------------------------------------------------
\* StoreCallStack in steps: the clearing of the array, the test of the stack
\* pointer, then the loop, one iteration a step. The locals are in frame, the
\* array is the ActiveCallStack of the record.
\* ----------------------------------------------------------------------
\* depth++ of the for statement.
NextDepth_Stuck(depth) == depth

NextDepth(depth) == depth + 1

\* The offsets from stackPointer one iteration reads: *(stackPointer + depth),
\* and *(stackPointer + depth + 1) when the first word is STACK_MARKER (the
\* right operand of && is evaluated only then).
OffsetsRead(img, depth) ==
    {depth} \cup (IF ReadStack(img, depth) = STACK_MARKER THEN {depth + 1} ELSE {})

\* The address of *(stackPointer + offset): the arithmetic of a uint32_t*, in
\* 32 bits.
WordAddress(stackPointer, offset) ==
    LET low == stackPointer[2] + 4 * offset
    IN <<(stackPointer[1] + low \div Half) % Half, low % Half>>

InitWalk ==
    /\ coreDumpData \in ColdRecords
    /\ op = NoArgCall("PowerOn", FALSE)
    /\ pc = "clear"
    /\ \E stackPointer \in ScanStackPointers :
           \E img \in ScanImagesAt(stackPointer) :
               frame = [stackPointer |-> stackPointer, image |-> img,
                        stackStoreArrLen |-> CALL_STACK_SIZE,
                        stackDepth |-> 0, depth |-> 0, read |-> {}]

WalkClear ==
    /\ pc = "clear"
    /\ coreDumpData' =
           [coreDumpData EXCEPT !.ActiveCallStack = ClearedArr(@, frame.stackStoreArrLen)]
    /\ pc' = "range"
    /\ UNCHANGED <<op, frame>>

WalkRangeCheck ==
    /\ pc = "range"
    /\ pc' = IF OutsideRam(frame.stackPointer) THEN "done" ELSE "loop"
    /\ UNCHANGED <<coreDumpData, op, frame>>

WalkIterate ==
    /\ pc = "loop"
    /\ frame.depth < MAX_STACK_DEPTH_SEARCH
    /\ LET st == ScanStep(frame.image, frame.depth,
                          [stackDepth    |-> frame.stackDepth,
                           stackStoreArr |-> coreDumpData.ActiveCallStack,
                           done          |-> FALSE])
       IN /\ coreDumpData' = [coreDumpData EXCEPT !.ActiveCallStack = st.stackStoreArr]
          /\ frame' = [frame EXCEPT !.stackDepth = st.stackDepth,
                                    !.depth = IF st.done THEN @ ELSE NextDepth(@),
                                    !.read = OffsetsRead(frame.image, frame.depth)]
          /\ pc' = IF st.done THEN "done" ELSE "loop"
    /\ UNCHANGED op

WalkExit ==
    /\ pc = "loop"
    /\ frame.depth >= MAX_STACK_DEPTH_SEARCH
    /\ pc' = "done"
    /\ UNCHANGED <<coreDumpData, op, frame>>

NextWalk == WalkClear \/ WalkRangeCheck \/ WalkIterate \/ WalkExit

\* The function runs on: nothing in it waits.
SpecWalk == InitWalk /\ [][NextWalk]_vars /\ WF_vars(NextWalk)

\* ----------------------------------------------------------------------
\* The program: main checks for a stored core dump, reads and resets it, and
\* runs the application until a fault handler calls CoreDumpStore, which runs
\* one statement a step and then spins until the CPU is reset. The CPU may be
\* reset at any step. frame keeps the locals of main, the arguments and the
\* position of the running CoreDumpStore, and what the last reset interrupted
\* (kept while main handles the core dump that reset left).
\* ----------------------------------------------------------------------
\* CoreDumpStore setting the keys after the other fields.
StoreOrder_KeysLast ==
    <<"SoftwareVersion", "AuxCode", "Type", "LineNumber", "FileName",
      "ActiveCallStack", "Key", "NotKey">>

\* The fields in the order CoreDumpStore writes them.
StoreOrder ==
    <<"Key", "NotKey", "SoftwareVersion", "AuxCode", "Type", "LineNumber",
      "FileName", "ActiveCallStack">>

\* main going on to CoreDumpGet whatever IsCoreDumpSaved returned.
AfterCheck_Unconditional(saved) == "get"

\* if (IsCoreDumpSaved() == true) { ... } Call1();
AfterCheck(saved) == IF saved THEN "get" ELSE "app"

InitProgram ==
    /\ coreDumpData \in ColdRecords
    /\ op = NoArgCall("PowerOn", FALSE)
    /\ pc = "main"
    /\ frame = [main |-> NoFrame, store |-> NoFrame, reset |-> NoFrame]

BootCheck ==
    /\ pc = "main"
    /\ op' = NoArgCall("IsCoreDumpSaved", IsCoreDumpSaved(coreDumpData))
    /\ frame' = [main  |-> [saved |-> IsCoreDumpSaved(coreDumpData), exported |-> NoFrame],
                 store |-> NoFrame,
                 reset |-> IF IsCoreDumpSaved(coreDumpData) THEN frame.reset ELSE NoFrame]
    /\ pc' = AfterCheck(IsCoreDumpSaved(coreDumpData))
    /\ UNCHANGED coreDumpData

BootGet ==
    /\ pc = "get"
    /\ op' = CoreDumpGetCall
    /\ frame' = [frame EXCEPT !.main.exported = coreDumpData]
    /\ pc' = "reset"
    /\ UNCHANGED coreDumpData

BootReset ==
    /\ pc = "reset"
    /\ coreDumpData' = ResetKeys(coreDumpData)
    /\ op' = NoArgCall("CoreDumpReset", FALSE)
    /\ frame' = [frame EXCEPT !.reset = NoFrame]
    /\ pc' = "app"

\* Call1() ... ASSERT() or a hardware exception: the handler calls
\* CoreDumpStore.
Fault ==
    /\ pc = "app"
    /\ \E stackPointer \in StackPointers, fileName \in {NULL, 1, 2},
          lineNumber \in LineNumbers :
            \E img \in ImagesAt(stackPointer) :
                op' = Call("CoreDumpStore", stackPointer, img, fileName,
                           lineNumber, Zero32, FALSE)
    /\ frame' = [frame EXCEPT !.store = [call |-> op', next |-> 1, writes |-> << >>]]
    /\ pc' = "guard"
    /\ UNCHANGED coreDumpData

StoreGuard ==
    /\ pc = "guard"
    /\ pc' = IF IsCoreDumpSaved(coreDumpData) THEN "halt" ELSE "store"
    /\ UNCHANGED <<coreDumpData, op, frame>>

\* CoreDumpStore is at the statement that writes the field.
AtStatement(field) ==
    /\ pc = "store"
    /\ StoreOrder[frame.store.next] = field

\* The statement leaves the record as d and CoreDumpStore goes on, to the
\* next statement or to the return into the handler's while (true).
Written(field, d) ==
    /\ coreDumpData' = d
    /\ frame' = [frame EXCEPT !.store.next = @ + 1,
                              !.store.writes = Append(@, field)]
    /\ pc' = IF frame.store.next = Len(StoreOrder) THEN "halt" ELSE "store"
    /\ UNCHANGED op

StoreKey ==
    /\ AtStatement("Key")
    /\ Written("Key", [coreDumpData EXCEPT !.Key = KEY_CORE_DUMP_STORED])

StoreNotKey ==
    /\ AtStatement("NotKey")
    /\ Written("NotKey",
               [coreDumpData EXCEPT !.NotKey = BitNot32(KEY_CORE_DUMP_STORED)])

StoreSoftwareVersion ==
    /\ AtStatement("SoftwareVersion")
    /\ Written("SoftwareVersion",
               [coreDumpData EXCEPT !.SoftwareVersion = U32(SOFTWARE_VERSION)])

StoreAuxCode ==
    /\ AtStatement("AuxCode")
    /\ Written("AuxCode",
               [coreDumpData EXCEPT !.AuxCode = frame.store.call.auxCode])

StoreType ==
    /\ AtStatement("Type")
    /\ Written("Type",
               [coreDumpData EXCEPT
                   !.Type = U32(FaultTypeOf(frame.store.call.stackPointer))])

StoreLineNumber ==
    /\ AtStatement("LineNumber")
    /\ Written("LineNumber",
               [coreDumpData EXCEPT !.LineNumber = frame.store.call.lineNumber])

StoreFileName ==
    /\ AtStatement("FileName")
    /\ Written("FileName",
               [coreDumpData EXCEPT
                   !.FileName = SaveFileName(@, frame.store.call.fileName)])

StoreActiveCallStack ==
    /\ AtStatement("ActiveCallStack")
    /\ Written("ActiveCallStack",
               [coreDumpData EXCEPT
                   !.ActiveCallStack =
                       StoreCallStack(frame.store.call.stackPointer,
                                      frame.store.call.image, @, CALL_STACK_SIZE)])

\* A reset of the CPU, at any point: main starts again over the retained RAM.
CpuReset ==
    /\ coreDumpData' = RetainedRam(coreDumpData)
    /\ op' = NoArgCall("WarmReset", FALSE)
    /\ frame' = [main |-> NoFrame, store |-> NoFrame,
                 reset |-> [at |-> pc, store |-> frame.store]]
    /\ pc' = "main"

NextProgram ==
    \/ BootCheck \/ BootGet \/ BootReset \/ Fault \/ StoreGuard
    \/ StoreKey \/ StoreNotKey \/ StoreSoftwareVersion \/ StoreAuxCode
    \/ StoreType \/ StoreLineNumber \/ StoreFileName \/ StoreActiveCallStack
    \/ CpuReset

SpecProgram == InitProgram /\ [][NextProgram]_vars

\* ----------------------------------------------------------------------
\* The build options (Options.h) and the stack word of src/main.cpp
\* ----------------------------------------------------------------------
\* sizeof(uint32_t), the element size the memset of StoreCallStack uses.
SizeofUint32 == 4

\* sizeof(INTEGER_TYPE): the stack word is 32 bits on the target and is
\* widened to 64 bits on a 64-bit host.
WordSizes == {4, 8}

\* The call stack strategies: the scan of the stack (no option defined),
\* USE_BUILTIN_BACKTRACE, USE_LINUX_BACKTRACE, USE_WINDOWS_BACKTRACE.
Backtraces == {"scan", "builtin", "linux", "windows"}

Builds ==
    [USE_HARDWARE : BOOLEAN, backtrace : Backtraces, wordBytes : WordSizes]

\* The entries memset(stackStoreArr, 0, sizeof(uint32_t) * stackStoreArrLen)
\* clears when an entry has wordBytes bytes.
ClearedWords(wordBytes, stackStoreArrLen) ==
    (SizeofUint32 * stackStoreArrLen) \div wordBytes

\* StoreCallStack of src/main.cpp, on stack words of wordBytes bytes.
StoreCallStackWide(wordBytes, stackPointer, img, stackStoreArr, stackStoreArrLen) ==
    LET cleared == ClearedArr(stackStoreArr, ClearedWords(wordBytes, stackStoreArrLen)) IN
    IF OutsideRam(stackPointer) THEN cleared
    ELSE IF cleared = [i \in 1..CALL_STACK_SIZE |-> Zero32] THEN ScanTable[img]
         ELSE ScanLoop(img, cleared)

\* What backtrace() or CaptureStackBackTrace() may hand back for a depth of
\* CALL_STACK_SIZE: no frame, three frames, eight frames (host addresses).
HostBacktraces ==
    { << >>,
      [i \in 1..3 |-> <<21930, 4096 + 16 * i>>],
      [i \in 1..CALL_STACK_SIZE |-> <<21930, 8192 + 16 * i>>] }

\* SaveActiveCallStack(depth) of USE_LINUX_BACKTRACE; symbols is what
\* backtrace_symbols() returned, NULL or not.
SaveActiveCallStackLinux(ActiveCallStack, callStack, symbols) ==
    LET frames == Len(callStack) IN
    IF frames <= 0 THEN ActiveCallStack
    ELSE IF symbols = NULL THEN ActiveCallStack
    ELSE LET saveCount == IF CALL_STACK_SIZE < frames THEN CALL_STACK_SIZE ELSE frames
         IN [i \in 1..CALL_STACK_SIZE |->
                IF i <= saveCount THEN callStack[i] ELSE ActiveCallStack[i]]

\* SaveActiveCallStack(depth) of USE_WINDOWS_BACKTRACE.
SaveActiveCallStackWindows(ActiveCallStack, callStack) ==
    LET frames == Len(callStack)
        saveCount == IF CALL_STACK_SIZE < frames THEN CALL_STACK_SIZE ELSE frames
    IN [i \in 1..CALL_STACK_SIZE |->
           IF i <= saveCount THEN callStack[i] ELSE ActiveCallStack[i]]

\* The frames of the faulting thread, innermost first, each with its address
\* (in RAM) and the return address saved in it (in flash); the link of the
\* last one is null. Three frames, ten frames, one frame.
FrameChains ==
    { [i \in 1..3  |-> [frameAddr |-> <<16, 8192 - 64 * i>>, returnAddr |-> <<64, 256 * i>>]],
      [i \in 1..10 |-> [frameAddr |-> <<16, 16384 - 32 * i>>, returnAddr |-> <<65, 4 * i>>]],
      [i \in 1..1  |-> [frameAddr |-> <<16, 512>>, returnAddr |-> <<64, 8>>]] }

\* __builtin_frame_address(idx): the address of frame idx, null past the
\* outermost frame.
BuiltinFrameAddress(chain, idx) ==
    IF idx < Len(chain) THEN chain[idx + 1].frameAddr ELSE Zero32

\* SAVE_STACK_ADDRESS(idx), SAVE_STACK_ADDRESS(idx + 1), ... up to
\* stack_save_complete.
RECURSIVE SaveStackAddress(_, _, _)
SaveStackAddress(ActiveCallStack, chain, idx) ==
    IF idx >= CALL_STACK_SIZE THEN ActiveCallStack
    ELSE LET frameAddr  == BuiltinFrameAddress(chain, idx)
             returnAddr == BuiltinFrameAddress(chain, idx)
         IN IF frameAddr # Zero32 /\ returnAddr # Zero32
            THEN SaveStackAddress([ActiveCallStack EXCEPT ![idx + 1] = returnAddr],
                                  chain, idx + 1)
            ELSE ActiveCallStack

\* SaveActiveCallStack() of USE_BUILTIN_BACKTRACE.
SaveActiveCallStackBuiltin(ActiveCallStack, chain) ==
    SaveStackAddress(ActiveCallStack, chain, 0)

\* The record of a build: with USE_HARDWARE it has the eight registers of
\* the exception frame (R0..R3, R12, LR, PC, XPSR), here found as the RAM was.
RecordOf(build, d) ==
    IF build.USE_HARDWARE
    THEN [Key |-> d.Key, NotKey |-> d.NotKey,
          SoftwareVersion |-> d.SoftwareVersion, AuxCode |-> d.AuxCode,
          Type |-> d.Type, LineNumber |-> d.LineNumber, FileName |-> d.FileName,
          Registers |-> d.ActiveCallStack, ActiveCallStack |-> d.ActiveCallStack]
    ELSE d

\* What the call stack strategies of the host get from the runtime at a
\* fault: the frames of backtrace(), the result of backtrace_symbols(), the
\* chain of frames __builtin_frame_address() follows.
TraceOf(callStack, symbols, chain) ==
    [callStack |-> callStack, symbols |-> symbols, chain |-> chain]

NoTrace == TraceOf(<< >>, NULL, << >>)

Traces(build) ==
    CASE build.backtrace = "scan"    -> {NoTrace}
      [] build.backtrace = "builtin" -> {TraceOf(<< >>, NULL, c) : c \in FrameChains}
      [] build.backtrace = "linux"   ->
             {TraceOf(b, sy, << >>) : b \in HostBacktraces, sy \in {NULL, 1}}
      [] build.backtrace = "windows" -> {TraceOf(b, NULL, << >>) : b \in HostBacktraces}

\* The CPU at a fault: the number of the exception vector taken (3 HardFault,
\* 6 UsageFault), the EXC_RETURN value in LR (0xFFFFFFF9 main stack,
\* 0xFFFFFFFD process stack), the two stack pointers, the stack pointer in
\* use and the stack image found there. The CPU is the same in every build;
\* without USE_HARDWARE the code reads none of its registers.
Machines(build) ==
    { [vector |-> v, LR |-> lr, MSP |-> <<16, 4096>>, PSP |-> <<24, 0>>,
       SP |-> IF lr = <<65535, 65529>> THEN <<16, 4096>> ELSE <<24, 0>>,
       image |-> img] :
         v \in {3, 6}, lr \in {<<65535, 65529>>, <<65535, 65533>>}, img \in {1, 2} }

\* Save the current call stack, by the strategy of the build.
SavedCallStack(build, ActiveCallStack, stackPointer, img, trace) ==
    CASE build.backtrace = "builtin" ->
             SaveActiveCallStackBuiltin(ActiveCallStack, trace.chain)
      [] build.backtrace = "linux" ->
             SaveActiveCallStackLinux(ActiveCallStack, trace.callStack, trace.symbols)
      [] build.backtrace = "windows" ->
             SaveActiveCallStackWindows(ActiveCallStack, trace.callStack)
      [] build.backtrace = "scan" ->
             StoreCallStackWide(build.wordBytes, stackPointer, img, ActiveCallStack,
                                CALL_STACK_SIZE)

\* The SP register read in every build.
ScannedStackPointer_AlwaysSP(build, machine, stackPointer) ==
    IF stackPointer = Zero32 THEN machine.SP ELSE stackPointer

\* Get the stack pointer if none passed in: if (stackPointer == 0) {
\* #ifdef USE_HARDWARE stackPointer = (uint32_t*)SP; #endif }
ScannedStackPointer(build, machine, stackPointer) ==
    IF stackPointer = Zero32 /\ build.USE_HARDWARE
    THEN machine.SP ELSE stackPointer

\* The statements of CoreDumpStore of src/main.cpp after the guard.
PopulateIn(build, d, machine, trace, stackPointer, fileName, lineNumber, auxCode) ==
    LET fields == [SetKeys(d) EXCEPT
                      !.SoftwareVersion = U32(SOFTWARE_VERSION),
                      !.AuxCode         = auxCode,
                      !.Type            = U32(FaultTypeOf(stackPointer)),
                      !.LineNumber      = lineNumber,
                      !.FileName        = SaveFileName(d.FileName, fileName)]
        frameRead == IF build.USE_HARDWARE /\ stackPointer # Zero32
                     THEN [fields EXCEPT
                              !.Registers = [i \in 1..8 |-> ReadStack(machine.image, i - 1)]]
                     ELSE fields
        scanned == ScannedStackPointer(build, machine, stackPointer)
    IN [frameRead EXCEPT
           !.ActiveCallStack =
               SavedCallStack(build, d.ActiveCallStack, scanned, machine.image, trace)]

StoredRecordIn(build, d, machine, trace, stackPointer, fileName, lineNumber, auxCode) ==
    IF IsCoreDumpSaved(d) THEN d
    ELSE PopulateIn(build, d, machine, trace, stackPointer, fileName, lineNumber, auxCode)

\* The handler returning into the code that faulted.
TerminalLoop_Returns == "app"

\* while (true); at the end of a handler.
TerminalLoop == "halt"

\* The stack pointer HardFaultHandler passes to CoreDumpStore.
HandlerStackPointer(build, machine) ==
    IF build.USE_HARDWARE
    THEN (IF (machine.LR[2] \div 4) % 2 = 0 THEN machine.MSP ELSE machine.PSP)
    ELSE Zero32

\* ----------------------------------------------------------------------
\* The program in each build: main (the boot check), a fault taken to
\* FaultHandler or HardFaultHandler, the reset of the CPU. frame keeps the
\* build and, from a fault on, the handler, the CPU and the runtime at the
\* fault.
\* ----------------------------------------------------------------------
InitBuilds ==
    /\ \E build \in Builds, d \in ColdRecords :
           /\ coreDumpData = RecordOf(build, d)
           /\ frame = [build |-> build, handler |-> "none",
                       machine |-> NoFrame, trace |-> NoTrace]
    /\ op = NoArgCall("PowerOn", FALSE)
    /\ pc = "main"

\* if (IsCoreDumpSaved() == true) { CoreDumpGet(); CoreDumpReset(); }
MainBoot ==
    /\ pc = "main"
    /\ coreDumpData' = IF IsCoreDumpSaved(coreDumpData)
                       THEN ResetKeys(coreDumpData) ELSE coreDumpData
    /\ op' = IF IsCoreDumpSaved(coreDumpData)
             THEN NoArgCall("CoreDumpReset", FALSE)
             ELSE NoArgCall("IsCoreDumpSaved", FALSE)
    /\ pc' = "app"
    /\ UNCHANGED frame

\* ASSERT() in Call3: FaultHandler(__FILE__, __LINE__).
FaultHandler ==
    /\ pc = "app"
    /\ \E machine \in Machines(frame.build), trace \in Traces(frame.build) :
           /\ coreDumpData' = StoredRecordIn(frame.build, coreDumpData, machine, trace,
                                             Zero32, 2, U32(27), Zero32)
           /\ op' = Call("CoreDumpStore", Zero32, machine.image, 2, U32(27), Zero32, FALSE)
           /\ frame' = [frame EXCEPT !.handler = "FaultHandler",
                                     !.machine = machine, !.trace = trace]
    /\ pc' = TerminalLoop

\* A hardware exception: HardFaultHandler().
HardFaultHandler ==
    /\ pc = "app"
    /\ \E machine \in Machines(frame.build), trace \in Traces(frame.build) :
           LET stackPointer == HandlerStackPointer(frame.build, machine)
               vectorNum    == Zero32
           IN /\ coreDumpData' = StoredRecordIn(frame.build, coreDumpData, machine, trace,
                                                stackPointer, 1, U32(33), vectorNum)
              /\ op' = Call("CoreDumpStore", stackPointer, machine.image, 1, U32(33),
                            vectorNum, FALSE)
              /\ frame' = [frame EXCEPT !.handler = "HardFaultHandler",
                                        !.machine = machine, !.trace = trace]
    /\ pc' = TerminalLoop

\* The reset of the CPU that ends the terminal loop of a handler.
Reboot ==
    /\ pc = "halt"
    /\ coreDumpData' = RetainedRam(coreDumpData)
    /\ op' = NoArgCall("WarmReset", FALSE)
    /\ pc' = "main"
    /\ UNCHANGED frame

NextBuilds == MainBoot \/ FaultHandler \/ HardFaultHandler \/ Reboot

SpecBuilds == InitBuilds /\ [][NextBuilds]_vars

\* ----------------------------------------------------------------------
\* StoreThreadCallStacks (USE_OPERATING_SYSTEM) in steps: the clearing of
\* ThreadCallStacks, then the loop over the task table, one iteration a step.
\* frame holds the task table, the locals t and taskCnt, and the table
\* indices read and the rows written so far.
\* ----------------------------------------------------------------------
\* The cap on the tasks stored: the rows of ThreadCallStacks.
CRASH_DUMP_TASK_SIZE == OS_TASKCNT

\* A task control block: the saved stack pointer of the task and the stack
\* image found there.
TaskControlBlocks ==
    << [tsk_stack |-> <<16, 4096>>, image |-> 1],
       [tsk_stack |-> <<24, 0>>,    image |-> 2] >>

\* os_active_TCB[0 .. OS_TASKCNT-1], each entry NULL or a pointer to
\* TaskControlBlocks[p], and at index OS_TASKCNT the word that follows the
\* table in memory, which may be either.
TaskTables == [0..OS_TASKCNT -> {NULL} \cup (1..Len(TaskControlBlocks))]

\* ThreadCallStacks as the RAM was: every row as ActiveCallStack is.
RecordWithThreads(d) ==
    [Key |-> d.Key, NotKey |-> d.NotKey,
     SoftwareVersion |-> d.SoftwareVersion, AuxCode |-> d.AuxCode,
     Type |-> d.Type, LineNumber |-> d.LineNumber, FileName |-> d.FileName,
     ActiveCallStack |-> d.ActiveCallStack,
     ThreadCallStacks |-> [row \in 1..OS_TASKCNT |-> d.ActiveCallStack]]

\* Writing the row a task index names, not the next free row.
RowOf_TaskIndex(t, taskCnt) == t

\* &_coreDumpData.ThreadCallStacks[taskCnt][0]
RowOf(t, taskCnt) == taskCnt

\* t <= OS_TASKCNT
InTaskLoop(t) == t <= OS_TASKCNT

InitTasks ==
    /\ \E d \in {FilledRecord(Zero32, Zero32), FilledRecord(<<43690, 43690>>, <<21845, 21845>>)} :
           coreDumpData = RecordWithThreads(d)
    /\ op = NoArgCall("PowerOn", FALSE)
    /\ pc = "tasks_clear"
    /\ \E table \in TaskTables :
           frame = [os_active_TCB |-> table, t |-> 0, taskCnt |-> 0,
                    read |-> {}, written |-> {}]

\* memset(_coreDumpData.ThreadCallStacks, 0, sizeof(...))
TasksClear ==
    /\ pc = "tasks_clear"
    /\ coreDumpData' =
           [coreDumpData EXCEPT
               !.ThreadCallStacks =
                   [row \in 1..OS_TASKCNT |-> [i \in 1..CALL_STACK_SIZE |-> Zero32]]]
    /\ pc' = "tasks_loop"
    /\ UNCHANGED <<op, frame>>

\* One iteration over a null entry: continue.
TasksSkip ==
    /\ pc = "tasks_loop"
    /\ InTaskLoop(frame.t)
    /\ frame.os_active_TCB[frame.t] = NULL
    /\ frame' = [frame EXCEPT !.t = @ + 1, !.read = @ \cup {frame.t}]
    /\ UNCHANGED <<coreDumpData, op, pc>>

\* One iteration over a task control block.
TasksStore ==
    /\ pc = "tasks_loop"
    /\ InTaskLoop(frame.t)
    /\ frame.os_active_TCB[frame.t] # NULL
    /\ LET p_TCB == TaskControlBlocks[frame.os_active_TCB[frame.t]]
           row   == RowOf(frame.t, frame.taskCnt)
       IN /\ coreDumpData' =
                 [coreDumpData EXCEPT
                     !.ThreadCallStacks[row + 1] =
                         StoreCallStack(p_TCB.tsk_stack, p_TCB.image, @, CALL_STACK_SIZE)]
          /\ frame' = [frame EXCEPT !.t = @ + 1, !.taskCnt = @ + 1,
                                    !.read = @ \cup {frame.t},
                                    !.written = @ \cup {row}]
          /\ pc' = IF frame.taskCnt + 1 >= CRASH_DUMP_TASK_SIZE
                   THEN "tasks_done" ELSE "tasks_loop"
    /\ UNCHANGED op

TasksExit ==
    /\ pc = "tasks_loop"
    /\ ~InTaskLoop(frame.t)
    /\ pc' = "tasks_done"
    /\ UNCHANGED <<coreDumpData, op, frame>>

NextTasks == TasksClear \/ TasksSkip \/ TasksStore \/ TasksExit

SpecTasks == InitTasks /\ [][NextTasks]_vars

\* ----------------------------------------------------------------------
\* The public operations in the build with USE_OPERATING_SYSTEM: the record
\* has ThreadCallStacks, and the operations are the same code.
\* ----------------------------------------------------------------------
InitThreads ==
    /\ \E d \in ColdRecords : coreDumpData = RecordWithThreads(d)
    /\ op = NoArgCall("PowerOn", FALSE)
    /\ pc = "api"
    /\ frame = NoFrame

NextThreads ==
    \/ \E stackPointer \in StackPointers, fileName \in {NULL, 1}, auxCode \in AuxCodes :
            \E img \in ImagesAt(stackPointer) :
                CoreDumpStore(stackPointer, img, fileName, U32(42), auxCode)
    \/ IsCoreDumpSavedCall
    \/ CoreDumpGet
    \/ CoreDumpReset
    \/ WarmReset

SpecThreads == InitThreads /\ [][NextThreads]_vars

\* ----------------------------------------------------------------------
\* A nested fault: while one CoreDumpStore runs, statement by statement, a
\* second fault is taken on the same CPU and its handler calls CoreDumpStore,
\* which runs to its return before the first goes on. frame keeps the first
\* call and its position (store), the second call once it was made (second)
\* and the record the first call was entered with (pre).
\* ----------------------------------------------------------------------
\* The arguments of the interrupted call and of the nested call.
FirstCalls ==
    { Call("CoreDumpStore", stackPointer, img, fileName, U32(1), Zero32, FALSE) :
        stackPointer \in StackPointers, img \in 0..ApiImages, fileName \in {NULL, 1} }

NestedCalls ==
    { Call("CoreDumpStore", stackPointer, img, fileName, Ones32, Ones32, FALSE) :
        stackPointer \in StackPointers, img \in 0..ApiImages, fileName \in {NULL, 2} }

InitNested ==
    /\ coreDumpData \in ColdRecords
    /\ ~IsCoreDumpSaved(coreDumpData)
    /\ op \in FirstCalls
    /\ op.image \in ImagesAt(op.stackPointer)
    /\ pc = "guard"
    /\ frame = [store |-> [call |-> op, next |-> 1, writes |-> << >>],
                second |-> NoFrame, pre |-> coreDumpData]

\* The nested CoreDumpStore, from its guard to its return, between two
\* statements of the first.
Preempt ==
    /\ pc \in {"guard", "store"}
    /\ frame.second = NoFrame
    /\ \E call \in NestedCalls :
           /\ call.image \in ImagesAt(call.stackPointer)
           /\ coreDumpData' = StoredRecord(coreDumpData, call.stackPointer, call.image,
                                           call.fileName, call.lineNumber, call.auxCode)
           /\ op' = call
           /\ frame' = [frame EXCEPT !.second = call]
    /\ UNCHANGED pc

NextNested ==
    \/ StoreGuard
    \/ StoreKey \/ StoreNotKey \/ StoreSoftwareVersion \/ StoreAuxCode
    \/ StoreType \/ StoreLineNumber \/ StoreFileName \/ StoreActiveCallStack
    \/ Preempt

SpecNested == InitNested /\ [][NextNested]_vars

\* ----------------------------------------------------------------------
\* The call stack scan, stated without the loop
\* ----------------------------------------------------------------------

\* 0x00400000 <= w <= 0x00500000.
InCode(w) == (w[1] >= 64 /\ w[1] < 80) \/ w = <<80, 0>>

\* The offset the scan stops before: the first one, below 1024, where the word
\* and the next word are both 0xEFEFEFEF, else 1024.
ReferenceStop(img) ==
    LET pairs == { d \in 0..1023 : /\ ReadStack(img, d) = <<61423, 61423>>
                                   /\ ReadStack(img, d + 1) = <<61423, 61423>> }
    IN IF pairs = {} THEN 1024
       ELSE CHOOSE d \in pairs : \A e \in pairs : d <= e

\* The words before the stop that lie in the code range, in stack order.
ReferenceCandidates(img) ==
    SelectSeq([i \in 1..ReferenceStop(img) |-> ReadStack(img, i - 1)], InCode)

\* The first 8 candidates, padded with zeros.
ReferenceOutput(img) ==
    LET c == ReferenceCandidates(img)
    IN [i \in 1..8 |-> IF i <= Len(c) THEN c[i] ELSE <<0, 0>>]

ReferenceTable == [img \in 1..Len(StackImages) |-> ReferenceOutput(img)]

\* The step is a capture that populates the record from the stack image at a
\* stack pointer inside RAM.
ScanningStep ==
    /\ PopulatingStep
    /\ ~Less32(op'.stackPointer, <<16, 0>>)
    /\ ~Less32(<<32, 0>>, op'.stackPointer)

\* C11: a populating capture with a stack pointer below RAM_BEGIN or above
\* RAM_END leaves every entry of ActiveCallStack 0, marks the record valid and
\* records the other fields; with a stack pointer equal to RAM_BEGIN or to
\* RAM_END the stack is scanned.
C11_OutsideRamStoresNothing ==
    [][PopulatingStep =>
          /\ (Less32(op'.stackPointer, <<16, 0>>) \/ Less32(<<32, 0>>, op'.stackPointer))
                => /\ \A i \in 1..8 : coreDumpData'.ActiveCallStack[i] = <<0, 0>>
                   /\ coreDumpData'.Key = <<57005, 48879>>
                   /\ coreDumpData'.NotKey = <<8530, 16656>>
                   /\ coreDumpData'.SoftwareVersion = <<0, 1234>>
                   /\ coreDumpData'.AuxCode = op'.auxCode
                   /\ coreDumpData'.LineNumber = op'.lineNumber
                   /\ coreDumpData'.Type =
                          IF op'.stackPointer = <<0, 0>> THEN <<0, 1>> ELSE <<0, 0>>
                   /\ op'.fileName # NULL =>
                          coreDumpData'.FileName = C9_Expected(FileNames[op'.fileName])
          /\ op'.stackPointer \in {<<16, 0>>, <<32, 0>>}
                => coreDumpData'.ActiveCallStack = ReferenceTable[op'.image]]_vars

\* A capture with the stack pointer 0x000FFFFC, just below RAM, made over a
\* call stack array that was not zero, is in the record with an empty call
\* stack.
C11_Witness ==
    /\ op.name = "CoreDumpStore"
    /\ op.stackPointer = <<15, 65532>>
    /\ op.fileName = NULL
    /\ coreDumpData.FileName[1] = 170
    /\ IsCoreDumpSaved(coreDumpData)
    /\ coreDumpData.LineNumber = <<0, 42>>
    /\ coreDumpData.Type = <<0, 0>>
    /\ \A i \in 1..8 : coreDumpData.ActiveCallStack[i] = <<0, 0>>

\* C12: after a populating capture every nonzero entry of ActiveCallStack is a
\* value v with FLASH_BASE <= v <= FLASH_END.
C12_EntriesInFlash ==
    [][PopulatingStep =>
          \A i \in 1..8 :
              LET v == coreDumpData'.ActiveCallStack[i]
              IN v # <<0, 0>> => /\ v[1] >= 64
                                 /\ (v[1] < 80 \/ v = <<80, 0>>)]_vars

\* A capture of the stack that holds 0x003FFFFF, FLASH_BASE, FLASH_END and
\* 0x00500001: the two bounds are in the record.
C12_Witness ==
    /\ op.name = "CoreDumpStore"
    /\ op.image = 2
    /\ coreDumpData.ActiveCallStack[1] = <<64, 0>>
    /\ coreDumpData.ActiveCallStack[2] = <<80, 0>>
    /\ coreDumpData.ActiveCallStack[3] = <<64, 4>>

\* C13: after a populating capture ActiveCallStack is k nonzero stored
\* candidates followed by CALL_STACK_SIZE - k zeros, whatever the array held
\* before.
C13_ZeroPadded ==
    [][PopulatingStep =>
          \E k \in 0..8 :
              /\ \A i \in 1..k : InCode(coreDumpData'.ActiveCallStack[i])
              /\ \A i \in (k + 1)..8 : coreDumpData'.ActiveCallStack[i] = <<0, 0>>]_vars

\* A capture of three return addresses over a call stack array that held
\* 0x55555555 in every entry: three addresses, then five zeros.
C13_Witness ==
    /\ op.name = "CoreDumpStore"
    /\ op.image = 1
    /\ op.fileName = NULL
    /\ coreDumpData.FileName[1] = 85
    /\ coreDumpData.ActiveCallStack[3] = <<64, 768>>
    /\ \A i \in 4..8 : coreDumpData.ActiveCallStack[i] = <<0, 0>>

\* C14: for every stack content and every stack pointer inside RAM the call
\* stack a populating capture stores is the reference result: the words in
\* [FLASH_BASE, FLASH_END] among those before the first marker pair or before
\* offset MAX_STACK_DEPTH_SEARCH, in stack order, the first CALL_STACK_SIZE of
\* them.
C14_EqualsReference ==
    [][ScanningStep =>
          coreDumpData'.ActiveCallStack = ReferenceTable[op'.image]]_vars

\* A capture of a stack of twenty return addresses: the record holds the
\* first eight.
C14_Witness ==
    /\ op.name = "CoreDumpStore"
    /\ op.image = 4
    /\ op.stackPointer = <<16, 4096>>
    /\ coreDumpData.ActiveCallStack =
           [i \in 1..8 |-> <<64, 4096 + 4 * i>>]

\* The words of a stack image at the offsets before the first marker pair (or
\* before offset 1024 when there is none).
WordsBeforePair == 
    [img \in 1..Len(StackImages) |->
        { ReadStack(img, d) : d \in 0..(ReferenceStop(img) - 1) }]

\* The code-range words of a stack image that lie after a single marker (a
\* 0xEFEFEFEF whose next word is not 0xEFEFEFEF) and before the stop, each with
\* its rank among the code-range words from offset 0, for the ranks up to 8.
AfterSingleMarker ==
    [img \in 1..Len(StackImages) |->
        LET stop    == ReferenceStop(img)
            singles == { d \in 0..(stop - 1) :
                            /\ ReadStack(img, d) = <<61423, 61423>>
                            /\ ReadStack(img, d + 1) # <<61423, 61423>> }
            rank(d) == Cardinality({ e \in 0..d : InCode(ReadStack(img, e)) })
        IN IF singles = {} THEN {}
           ELSE LET first == CHOOSE d \in singles : \A e \in singles : d <= e
                IN { <<rank(d), ReadStack(img, d)>> :
                        d \in { e \in (first + 1)..(stop - 1) :
                                   /\ InCode(ReadStack(img, e))
                                   /\ rank(e) <= 8 } }]

\* C15: the scan ends at the first pair of consecutive STACK_MARKER words: a
\* populating capture stores no word that lies at or after the pair, and a
\* single STACK_MARKER does not end the scan: the code-range words after it
\* are stored.
C15_StopsAtMarkerPair ==
    [][ScanningStep =>
          /\ \A i \in 1..8 :
                 coreDumpData'.ActiveCallStack[i] # <<0, 0>> =>
                     coreDumpData'.ActiveCallStack[i] \in WordsBeforePair[op'.image]
          /\ \A e \in AfterSingleMarker[op'.image] :
                 coreDumpData'.ActiveCallStack[e[1]] = e[2]]_vars

\* A capture of the stack with one return address, a single marker, a second
\* return address, two markers with a word between them and a third return
\* address: all three addresses are in the record.
C15_Witness ==
    /\ op.name = "CoreDumpStore"
    /\ op.image = 5
    /\ coreDumpData.ActiveCallStack[1] = <<64, 16>>
    /\ coreDumpData.ActiveCallStack[2] = <<64, 32>>
    /\ coreDumpData.ActiveCallStack[3] = <<64, 48>>
    /\ coreDumpData.ActiveCallStack[4] = <<0, 0>>

\* The loop iterations StoreCallStack has started when it returns: a break
\* leaves depth at the iteration it broke in.
Iterations ==
    IF frame.depth = 1024 THEN 1024 ELSE frame.depth + 1

\* The code-range words among the words the iterations read, in stack order.
CandidatesFound ==
    SelectSeq([i \in 1..Iterations |-> ReadStack(frame.image, i - 1)], InCode)

\* StoreCallStack has returned from a scan of a stack with no marker pair: it
\* made 1024 iterations, or fewer and the array is full, and the array holds
\* the candidates of the words it read.
WalkResult ==
    /\ pc = "done"
    /\ (/\ ~OutsideRam(frame.stackPointer)
        /\ ReferenceStop(frame.image) = 1024)
          => /\ \/ frame.depth = 1024
                \/ /\ frame.depth < 1024
                   /\ frame.stackDepth = 8
                   /\ coreDumpData.ActiveCallStack[8] # <<0, 0>>
             /\ Len(CandidatesFound) <= 8
             /\ \A i \in 1..Len(CandidatesFound) :
                    coreDumpData.ActiveCallStack[i] = CandidatesFound[i]

\* C16: StoreCallStack terminates on every input; when the scanned region has
\* no marker pair it stops after MAX_STACK_DEPTH_SEARCH iterations, or earlier
\* once the output holds CALL_STACK_SIZE entries, and the output holds every
\* candidate found before the stop.
C16_Terminates == <>WalkResult

\* StoreCallStack has returned after 1024 iterations over a stack with single
\* markers and no marker pair, with the three candidates it found.
C16_Witness ==
    /\ pc = "done"
    /\ frame.image = 5
    /\ frame.depth = 1024
    /\ frame.stackDepth = 3
    /\ coreDumpData.ActiveCallStack[3] = <<64, 48>>

\* C17: after CoreDumpStore, CoreDumpReset and a second CoreDumpStore with
\* different arguments, IsCoreDumpSaved() is false between the reset and the
\* second capture and true after it, and the record holds the AuxCode, Type,
\* LineNumber, ActiveCallStack and (for a non-null file name) FileName of the
\* second capture.
C17_ResetRoundTrip ==
    /\ pc = "cleared" =>
           ~(coreDumpData.Key = <<57005, 48879>> /\ coreDumpData.NotKey = <<8530, 16656>>)
    /\ pc = "recaptured" =>
           /\ coreDumpData.Key = <<57005, 48879>>
           /\ coreDumpData.NotKey = <<8530, 16656>>
           /\ coreDumpData.AuxCode = op.auxCode
           /\ coreDumpData.LineNumber = op.lineNumber
           /\ coreDumpData.Type =
                  IF op.stackPointer = <<0, 0>> THEN <<0, 1>> ELSE <<0, 0>>
           /\ coreDumpData.ActiveCallStack =
                  IF op.image = 0 THEN [i \in 1..8 |-> <<0, 0>>]
                  ELSE ReferenceTable[op.image]
           /\ op.fileName # NULL =>
                  coreDumpData.FileName = C9_Expected(FileNames[op.fileName])

\* The second capture has replaced a first capture that was valid when
\* exported and differs from it in every field the arguments set.
C17_Witness ==
    /\ pc = "recaptured"
    /\ IsCoreDumpSaved(frame.exported)
    /\ frame.exported.AuxCode = frame.first.auxCode
    /\ frame.first.fileName # NULL
    /\ op.fileName # NULL
    /\ frame.exported.FileName = C9_Expected(FileNames[frame.first.fileName])
    /\ coreDumpData.AuxCode # frame.exported.AuxCode
    /\ coreDumpData.Type # frame.exported.Type
    /\ coreDumpData.LineNumber # frame.exported.LineNumber
    /\ coreDumpData.FileName # frame.exported.FileName
    /\ coreDumpData.ActiveCallStack # frame.exported.ActiveCallStack

\* The fields of the record that are not keys.
PayloadFields ==
    {"SoftwareVersion", "AuxCode", "Type", "LineNumber", "FileName",
     "ActiveCallStack"}

Complete(d, call) ==
    /\ d.SoftwareVersion = <<0, 1234>>
    /\ d.AuxCode = call.auxCode
    /\ d.Type = IF call.stackPointer = <<0, 0>> THEN <<0, 1>> ELSE <<0, 0>>
    /\ d.LineNumber = call.lineNumber
    /\ call.fileName # NULL => d.FileName = C9_Expected(FileNames[call.fileName])
    /\ d.ActiveCallStack =
           IF call.image = 0 THEN [i \in 1..8 |-> <<0, 0>>]
           ELSE ReferenceTable[call.image]

\* C19: the key is stored only after the file name, the line number and the
\* call stack have been stored, so a record that tests valid after a CPU reset
\* at any point during a capture is never partially populated.
C19_KeyStoredLast ==
    /\ pc = "store" =>
           \A i, j \in 1..Len(frame.store.writes) :
               (/\ frame.store.writes[i] \in {"Key", "NotKey"}
                /\ frame.store.writes[j] \in {"FileName", "LineNumber", "ActiveCallStack"})
                  => j < i
    /\ (/\ pc = "main"
        /\ frame.reset # NoFrame
        /\ frame.reset.at = "store"
        /\ coreDumpData.Key = <<57005, 48879>>
        /\ coreDumpData.NotKey = <<8530, 16656>>)
          => Complete(coreDumpData, frame.reset.store.call)

\* C20: in the boot path CoreDumpReset is called only when IsCoreDumpSaved()
\* returned true at that boot and only after CoreDumpGet: a valid record is
\* never cleared before it has been read, and an invalid record is never read.
C20_ReadBeforeReset ==
    [][/\ (op'.name = "CoreDumpReset" /\ op.name # "CoreDumpReset") =>
              /\ op.name = "CoreDumpGet"
              /\ frame.main # NoFrame
              /\ frame.main.saved
              /\ frame.main.exported = coreDumpData
       /\ (op'.name = "CoreDumpGet" /\ op.name # "CoreDumpGet") =>
              /\ op.name = "IsCoreDumpSaved"
              /\ op.ret
              /\ coreDumpData.Key = <<57005, 48879>>
              /\ coreDumpData.NotKey = <<8530, 16656>>
       /\ (/\ coreDumpData.Key = <<57005, 48879>>
           /\ coreDumpData.NotKey = <<8530, 16656>>
           /\ coreDumpData'.Key # <<57005, 48879>>) =>
              /\ frame.main # NoFrame
              /\ frame.main.exported = coreDumpData]_vars

\* main has reset a core dump of an assertion that it read while both keys
\* were in place; the application is about to run.
C20_Witness ==
    /\ pc = "app"
    /\ op.name = "CoreDumpReset"
    /\ frame.main.saved
    /\ IsCoreDumpSaved(frame.main.exported)
    /\ frame.main.exported.Type = <<0, 1>>
    /\ frame.main.exported.SoftwareVersion = <<0, 1234>>
    /\ coreDumpData = ResetKeys(frame.main.exported)
    /\ ~IsCoreDumpSaved(coreDumpData)

\* A handler has called CoreDumpStore and is in its terminal loop.
Captured(handler) ==
    /\ pc = "halt"
    /\ op.name = "CoreDumpStore"
    /\ frame.handler = handler

\* C21: a fault captured through HardFaultHandler is recorded with Type
\* FAULT_EXCEPTION and with AuxCode equal to the number of the exception
\* vector, in every build.
C21_HardFaultRecorded ==
    Captured("HardFaultHandler") =>
        /\ coreDumpData.Type = <<0, 0>>
        /\ coreDumpData.AuxCode = <<0, frame.machine.vector>>

\* C22: with the Linux or Windows backtrace, after a populating capture
\* ActiveCallStack holds the first min(CALL_STACK_SIZE, frames) addresses the
\* primitive returned, in order, and zeros after them, whatever it held before
\* and also when the primitive returns no frame.
C22_HostBacktraceZeroPadded ==
    [][(/\ op'.name = "CoreDumpStore"
        /\ frame'.build.backtrace \in {"linux", "windows"}
        /\ ~(coreDumpData.Key = <<57005, 48879>> /\ coreDumpData.NotKey = <<8530, 16656>>))
          => LET callStack == frame'.trace.callStack
                 k == IF Len(callStack) < 8 THEN Len(callStack) ELSE 8
             IN /\ \A i \in 1..k : coreDumpData'.ActiveCallStack[i] = callStack[i]
                /\ \A i \in (k + 1)..8 : coreDumpData'.ActiveCallStack[i] = <<0, 0>>]_vars

\* C25: after FaultHandler or HardFaultHandler has called CoreDumpStore the
\* handler stays in its terminal loop until the CPU is reset: the step after
\* the capture is the reset, which leaves the record as the capture left it,
\* and main runs next.
C25_HandlerNeverReturns ==
    [][/\ op'.name = "CoreDumpStore" => pc' = "halt"
       /\ (op.name = "CoreDumpStore" \/ pc = "halt") =>
              /\ op'.name = "WarmReset"
              /\ pc' = "main"
              /\ coreDumpData' = coreDumpData]_vars

\* The CPU has been reset out of the terminal loop of HardFaultHandler; the
\* record of the capture is valid and main is about to run.
C25_Witness ==
    /\ pc = "main"
    /\ op.name = "WarmReset"
    /\ frame.handler = "HardFaultHandler"
    /\ IsCoreDumpSaved(coreDumpData)
    /\ coreDumpData.LineNumber = <<0, 33>>
    /\ coreDumpData.FileName = C9_Expected(FileNames[1])

\* C28: StoreCallStack zeroes all stackStoreArrLen entries of the output
\* before scanning, also where the stack word has 64 bits: after a populating
\* capture every entry of ActiveCallStack is zero or the candidate the scan
\* stored there, never what the array held before.
C28_OutputZeroed ==
    [][(/\ op'.name = "CoreDumpStore"
        /\ frame'.build.backtrace = "scan"
        /\ ~(coreDumpData.Key = <<57005, 48879>> /\ coreDumpData.NotKey = <<8530, 16656>>))
          => \A i \in 1..8 :
                 \/ coreDumpData'.ActiveCallStack[i] = <<0, 0>>
                 \/ /\ frame'.machine.image # 0
                    /\ coreDumpData'.ActiveCallStack[i] =
                           ReferenceTable[frame'.machine.image][i]]_vars

\* C29: with the GCC builtin strategy ActiveCallStack[idx] holds the return
\* address saved in frame idx, for idx = 0, 1, ... up to the first frame
\* whose link is null or until CALL_STACK_SIZE entries are stored.
C29_ReturnAddressesStored ==
    [][(/\ op'.name = "CoreDumpStore"
        /\ frame'.build.backtrace = "builtin"
        /\ ~(coreDumpData.Key = <<57005, 48879>> /\ coreDumpData.NotKey = <<8530, 16656>>))
          => LET chain == frame'.trace.chain
                 k == IF Len(chain) < 8 THEN Len(chain) ELSE 8
             IN \A i \in 1..k :
                    /\ coreDumpData'.ActiveCallStack[i] = chain[i].returnAddr
                    /\ InCode(coreDumpData'.ActiveCallStack[i])]_vars

\* C23: StoreThreadCallStacks reads the task table only at the indices
\* 0 .. OS_TASKCNT-1, skips null entries and writes no row of ThreadCallStacks
\* with an index >= OS_TASKCNT.
C23_TaskWalkBounded ==
    /\ pc \in {"tasks_loop", "tasks_done"} =>
           /\ \A t \in frame.read : t >= 0 /\ t <= 4
           /\ \A row \in frame.written : row >= 0 /\ row <= 4
    /\ pc = "tasks_done" =>
           Cardinality(frame.written) =
               Cardinality({t \in 0..4 : frame.os_active_TCB[t] # NULL})

\* The call stack StoreCallStack leaves for a task control block.
TaskBacktrace(p) == ReferenceTable[TaskControlBlocks[p].image]

\* C30 as claimed: the backtrace of the live task at table index t is in row
\* t of ThreadCallStacks and the rows of null entries are all zero.
C30_RowPerTaskIndex ==
    pc = "tasks_done" =>
        \A t \in 0..4 :
            coreDumpData.ThreadCallStacks[t + 1] =
                IF frame.os_active_TCB[t] # NULL
                THEN TaskBacktrace(frame.os_active_TCB[t])
                ELSE [i \in 1..8 |-> <<0, 0>>]

\* The indices the walk read where the table entry is not null, in table
\* order, as a sequence.
RECURSIVE LiveRead(_)
LiveRead(t) ==
    IF t > 5 THEN << >>
    ELSE (IF t \in frame.read /\ frame.os_active_TCB[t] # NULL THEN <<t>> ELSE << >>)
             \o LiveRead(t + 1)

\* C30 as amended: the backtrace of the k-th non-null entry the walk read
\* (k = 0, 1, ...) is in row k of ThreadCallStacks, and the rows from the
\* number of such entries on are all zero.
C30_RowPerLiveTask ==
    pc = "tasks_done" =>
        LET live == LiveRead(0) IN
        /\ Len(live) <= 5
        /\ \A k \in 1..5 :
               coreDumpData.ThreadCallStacks[k] =
                   IF k <= Len(live)
                   THEN TaskBacktrace(frame.os_active_TCB[live[k]])
                   ELSE [i \in 1..8 |-> <<0, 0>>]

\* The walk is done over a table with null entries at the indices 0 and 2
\* and tasks at 1 and 3: their backtraces are in the rows 0 and 1.
C30_Witness ==
    /\ pc = "tasks_done"
    /\ frame.os_active_TCB[0] = NULL
    /\ frame.os_active_TCB[1] # NULL
    /\ frame.os_active_TCB[2] = NULL
    /\ frame.os_active_TCB[3] # NULL
    /\ frame.os_active_TCB[1] = 1
    /\ frame.os_active_TCB[3] = 2
    /\ coreDumpData.ThreadCallStacks[1][1] = <<64, 256>>
    /\ coreDumpData.ThreadCallStacks[2][1] = <<64, 0>>
    /\ frame.written = {0, 1}


\* C27: StoreCallStack never reads a stack word at an offset of
\* MAX_STACK_DEPTH_SEARCH or more from the stack pointer: every offset an
\* iteration reads, the neighbour of the marker-pair test included, is below
\* MAX_STACK_DEPTH_SEARCH.
C27_ReadsBelowSearchDepth ==
    \A offset \in frame.read : offset < MAX_STACK_DEPTH_SEARCH


\* C24: IsCoreDumpSaved() and CoreDumpGet() have no side effects, whatever
\* the record holds: a call of either leaves the record (and everything else
\* of the program's state) as it was, and the pointer CoreDumpGet() returns is
\* always the address of the one record of the process.
C24_ReadsHaveNoSideEffects ==
    [][/\ op'.name \in {"IsCoreDumpSaved", "CoreDumpGet"} =>
              /\ coreDumpData' = coreDumpData
              /\ pc' = pc
              /\ frame' = frame
       /\ op'.name = "CoreDumpGet" => op'.object = AddressOf_coreDumpData]_vars

\* CoreDumpGet() was called while a core dump of a hardware exception is
\* stored, and the record is still stored.
C24_Witness ==
    /\ op.name = "CoreDumpGet"
    /\ op.object = AddressOf_coreDumpData
    /\ IsCoreDumpSaved(coreDumpData)
    /\ coreDumpData.Type = U32(FAULT_EXCEPTION)


\* C26: in the cycle of fault, warm reset and boot, IsCoreDumpSaved() is
\* false once the boot check of main has completed, so the first fault after
\* a boot check is never dropped by the guard of CoreDumpStore (the capture
\* writes all its fields), and after the reset that ends the handler's
\* terminal loop the record main exports at the next boot is valid and holds
\* what the capture of that fault wrote.
C26_FirstFaultExported ==
    /\ pc \in {"app", "guard"} => ~IsCoreDumpSaved(coreDumpData)
    /\ pc = "halt" =>
           /\ Len(frame.store.writes) = Len(StoreOrder)
           /\ IsCoreDumpSaved(coreDumpData)
           /\ Complete(coreDumpData, frame.store.call)
    /\ (frame.reset # NoFrame /\ frame.reset.at = "halt") =>
           /\ pc \in {"main", "get"} =>
                  /\ IsCoreDumpSaved(coreDumpData)
                  /\ Complete(coreDumpData, frame.reset.store.call)
           /\ pc = "reset" =>
                  /\ IsCoreDumpSaved(frame.main.exported)
                  /\ Complete(frame.main.exported, frame.reset.store.call)

\* main has read, at the boot after the reset, the core dump of the hardware
\* exception the handler captured before it: eight return addresses of the
\* faulting stack and the line number of the call.
C26_Witness ==
    /\ pc = "reset"
    /\ op.name = "CoreDumpGet"
    /\ frame.reset # NoFrame
    /\ frame.reset.at = "halt"
    /\ frame.reset.store.call.stackPointer # <<0, 0>>
    /\ frame.reset.store.call.image # 0
    /\ frame.main.exported.Type = <<0, 0>>
    /\ frame.main.exported.LineNumber = frame.reset.store.call.lineNumber
    /\ frame.main.exported.ActiveCallStack = ReferenceTable[frame.reset.store.call.image]
    /\ frame.main.exported.ActiveCallStack[1] # <<0, 0>>


\* C31: every memory word read through the stack pointer lies at an address
\* within [RAM_BEGIN, RAM_END], for every stack pointer: each word an iteration
\* of StoreCallStack reads, the neighbour of the marker test included, has its
\* address in that range.
C31_ReadsWithinRam ==
    \A offset \in frame.read :
        /\ ~Less32(WordAddress(frame.stackPointer, offset), <<16, 0>>)
        /\ ~Less32(<<32, 0>>, WordAddress(frame.stackPointer, offset))


\* The record the call alone leaves behind when entered with the record d.
Solo(d, call) ==
    StoredRecord(d, call.stackPointer, call.image, call.fileName,
                 call.lineNumber, call.auxCode)

\* Both invocations of a nested fault have returned.
BothReturned ==
    /\ pc = "halt"
    /\ frame.second # NoFrame

\* C32: when a second CoreDumpStore preempts a first between two statements,
\* from a record that is not valid, and runs to completion before the first
\* goes on, then after both have returned AuxCode, Type, LineNumber, FileName
\* and ActiveCallStack all hold the values of one single invocation.
C32_NoMixture ==
    BothReturned =>
        \E call \in {frame.store.call, frame.second} :
            LET solo == Solo(frame.pre, call)
            IN /\ coreDumpData.AuxCode = solo.AuxCode
               /\ coreDumpData.Type = solo.Type
               /\ coreDumpData.LineNumber = solo.LineNumber
               /\ coreDumpData.FileName = solo.FileName
               /\ coreDumpData.ActiveCallStack = solo.ActiveCallStack

\* C32 (amended): after both have returned, AuxCode, Type, LineNumber and
\* ActiveCallStack all hold the values of one single invocation, and FileName
\* holds the file name of that invocation when its fileName argument is not
\* null; when it is null, FileName holds what the record held on entry or the
\* file name of the other invocation.
C32_MixtureOnlyInFileName ==
    BothReturned =>
        \E call \in {frame.store.call, frame.second} :
            LET solo  == Solo(frame.pre, call)
                other == IF call = frame.second THEN frame.store.call ELSE frame.second
            IN /\ coreDumpData.AuxCode = solo.AuxCode
               /\ coreDumpData.Type = solo.Type
               /\ coreDumpData.LineNumber = solo.LineNumber
               /\ coreDumpData.ActiveCallStack = solo.ActiveCallStack
               /\ IF call.fileName # NULL
                  THEN coreDumpData.FileName = solo.FileName
                  ELSE coreDumpData.FileName \in
                           {frame.pre.FileName, Solo(frame.pre, other).FileName}

\* Both have returned; the first, an assertion with a null file name, was
\* preempted after its guard by a hardware exception with a file name: the
\* record holds the line number and the fault type of the first and the file
\* name of the second.
C32_Witness ==
    /\ BothReturned
    /\ frame.store.call.fileName = NULL
    /\ frame.store.call.stackPointer = <<0, 0>>
    /\ frame.second.fileName = 2
    /\ frame.second.stackPointer = <<16, 4096>>
    /\ Len(frame.store.writes) = 8
    /\ coreDumpData.LineNumber = frame.store.call.lineNumber
    /\ coreDumpData.Type = <<0, 1>>
    /\ coreDumpData.FileName = Solo(frame.pre, frame.second).FileName
    /\ coreDumpData.FileName # frame.pre.FileName


C34_ThreadCallStacksUntouched ==
    [][coreDumpData'.ThreadCallStacks = coreDumpData.ThreadCallStacks]_vars

\* A hardware exception has been captured over RAM of ones, with the call
\* stack of the faulting stack stored: the rows of ThreadCallStacks are still
\* ones.
C34_Witness ==
    /\ op.name = "CoreDumpStore"
    /\ op.stackPointer = <<16, 4096>>
    /\ op.image = 1
    /\ IsCoreDumpSaved(coreDumpData)
    /\ coreDumpData.AuxCode = op.auxCode
    /\ coreDumpData.Type = <<0, 0>>
    /\ coreDumpData.ActiveCallStack = ReferenceTable[1]
    /\ \A row \in 1..5 : \A i \in 1..8 :
           coreDumpData.ThreadCallStacks[row][i] = <<65535, 65535>>

=============================================================================
